---- MODULE Spec2Model ----
(***************************************************************************)
(* Model of runAgent.py: one run of main(), from the parsed command line   *)
(* to sys.exit.  Strings that can be as long as the context window are     *)
(* kept run-length encoded (a sequence of <<character, count>> runs with   *)
(* no two neighbouring runs of the same character); command-line values    *)
(* and paths are plain sequences of characters.  An optional value (Python *)
(* None or a value) is a sequence of length 0 or 1.                        *)
(***************************************************************************)
EXTENDS Integers, Sequences, FiniteSets, TLC

\* --- Configuration & Limits (runAgent.py:10-13) ---
MAX_TEXT_TOKENS == 1000000
AVG_CHARS_PER_TOKEN == 4
MAX_CHARS == MAX_TEXT_TOKENS * AVG_CHARS_PER_TOKEN
MAX_UPLOAD_FILES == 10

\* Bound of the model: status polls counted per file (the counter saturates,
\* the polling itself is not bounded).
MaxPolls == 2

None == "<None>"
NL == "\n"
Whitespace == {" ", NL}

-----------------------------------------------------------------------------
\* Python str operations on run-length encoded strings

\* s + t for operands that are values
Join(s, t) ==
  IF s = <<>> THEN t
  ELSE IF t = <<>> THEN s
  ELSE IF s[Len(s)][1] = t[1][1]
       THEN SubSeq(s, 1, Len(s) - 1)
            \o << <<t[1][1], s[Len(s)][2] + t[1][2]>> >>
            \o Tail(t)
       ELSE s \o t

\* s + t, each operand evaluated once
Cat(left, right) == CHOOSE r \in { Join(s, t) : s \in {left}, t \in {right} } : TRUE

\* the str made of the characters cs
RECURSIVE Lit(_)
Lit(cs) == IF cs = <<>> THEN <<>>
           ELSE Cat(<< <<Head(cs), 1>> >>, Lit(Tail(cs)))

\* len(s)
RECURSIVE SLen(_)
SLen(s) == IF s = <<>> THEN 0 ELSE Head(s)[2] + SLen(Tail(s))

RECURSIVE LStrip(_)
LStrip(s) == IF s # <<>> /\ Head(s)[1] \in Whitespace THEN LStrip(Tail(s)) ELSE s

RECURSIVE RStrip(_)
RStrip(s) == IF s # <<>> /\ s[Len(s)][1] \in Whitespace
             THEN RStrip(SubSeq(s, 1, Len(s) - 1)) ELSE s

\* s.strip()
Strip(s) == RStrip(LStrip(s))

\* the characters of s, one by one
RECURSIVE Expand(_)
Expand(s) == IF s = <<>> THEN <<>>
             ELSE IF Head(s)[2] = 1 THEN <<Head(s)[1]>> \o Expand(Tail(s))
             ELSE <<Head(s)[1]>> \o Expand(<< <<Head(s)[1], Head(s)[2] - 1>> >> \o Tail(s))

-----------------------------------------------------------------------------
\* Python str operations on command-line values (plain character sequences)

RECURSIVE SplitComma(_, _)
SplitComma(s, cur) ==
  IF s = <<>> THEN <<cur>>
  ELSE IF Head(s) = "," THEN <<cur>> \o SplitComma(Tail(s), <<>>)
  ELSE SplitComma(Tail(s), Append(cur, Head(s)))

RECURSIVE LStripArg(_)
LStripArg(s) == IF s # <<>> /\ Head(s) \in Whitespace THEN LStripArg(Tail(s)) ELSE s

RECURSIVE RStripArg(_)
RStripArg(s) == IF s # <<>> /\ s[Len(s)] \in Whitespace
                THEN RStripArg(SubSeq(s, 1, Len(s) - 1)) ELSE s

StripArg(s) == RStripArg(LStripArg(s))

RECURSIVE StripNonEmpty(_)
StripNonEmpty(parts) ==
  IF parts = <<>> THEN <<>>
  ELSE IF StripArg(Head(parts)) # <<>>
       THEN <<StripArg(Head(parts))>> \o StripNonEmpty(Tail(parts))
       ELSE StripNonEmpty(Tail(parts))

\* [p.strip() for p in arg.split(",") if p.strip()]
ParsePaths(arg) == StripNonEmpty(SplitComma(arg, <<>>))

-----------------------------------------------------------------------------
\* The files on disk during the run (os.path.exists, open().read())

\* len of the block that text file "a" adds to the prompt
BlockALen == SLen(Lit(<<NL, "#", " ", "a", NL, " ", "H", NL, NL>>))

Directories == { <<"d">> }
ExistingPaths == { <<"i">>, <<"e">>, <<"X">>, <<"Y">>, <<"Z">>, <<"W">>,
                   <<"a">>, <<"b">>, <<"a", " ", "b">>, <<"d">> }

\* os.path.exists(path)
FileExists(path) == path \in ExistingPaths

\* open(path, "r") succeeds
Readable(path) == path \in ExistingPaths \ Directories

\* f.read()
FileContent(path) ==
  CASE path = <<"i">> -> Lit(<<" ", NL, "S", " ", "t", ".", NL, " ">>)
    [] path = <<"e">> -> <<>>
    [] path = <<"X">> -> << <<"x", MAX_CHARS>> >>
    [] path = <<"Y">> -> << <<"x", MAX_CHARS + 1>> >>
    [] path = <<"Z">> -> << <<"x", MAX_CHARS - BlockALen>> >>
    [] path = <<"W">> -> << <<"x", MAX_CHARS - BlockALen + 1>> >>
    [] path = <<"a">> -> Lit(<<" ", "H", NL>>)
    [] path = <<"b">> -> Lit(<<"#", "b", "b">>)
    [] OTHER -> <<>>

\* "a,a,...," with n entries
RECURSIVE RepeatArg(_, _)
RepeatArg(p, n) == IF n = 0 THEN <<>> ELSE <<p, ",">> \o RepeatArg(p, n - 1)

KeyValues == {None, "", "k"}
TextArgs == { <<>>, <<"a">>, <<" ", "a", " ", ",", ",", "b">>, <<"b", ",", "a">>,
              <<"a", " ", "b">>, <<"m">>, <<"a", ",", "d">>, <<",">> }
UploadArgs == { <<>>, <<"a">>, <<"a", ",", " ", "b">>, <<"a", ",", "m", ",", "b">>, <<",", " ">> }
ManyUploadArgs == { RepeatArg("a", MAX_UPLOAD_FILES), RepeatArg("a", MAX_UPLOAD_FILES + 1),
                    RepeatArg("m", MAX_UPLOAD_FILES + 1) }

\* argparse results (runAgent.py:17-54)
Namespace(k, setup, text, up, only) ==
  [api_key |-> k, agent_setup |-> setup, enclose_files_as_prompt |-> text,
   enclose_files |-> up, print_prompt_only |-> only]

\* the command lines and environments of the runs explored
Runs ==
  { <<Namespace(k, s, t, u, o), e>> : k \in KeyValues, e \in KeyValues,
      s \in { <<"i">>, <<"m">>, <<"d">> },
      t \in { <<>>, <<"m">> }, u \in { <<>>, <<"a">> }, o \in BOOLEAN }
  \cup
  { <<Namespace("k", s, t, u, o), None>> : s \in { <<"i">>, <<"e">>, <<"Z">> },
      t \in TextArgs, u \in UploadArgs, o \in BOOLEAN }
  \cup
  { <<Namespace("k", s, t, <<"a">>, o), None>> : s \in { <<"X">>, <<"Y">>, <<"Z">>, <<"W">> },
      t \in { <<>>, <<"a">> }, o \in BOOLEAN }
  \cup
  { <<Namespace("k", <<"i">>, <<"a">>, u, o), None>> : u \in ManyUploadArgs, o \in BOOLEAN }

\* lifecycle states a remote file handle can be reported in
FileStates == {"PENDING", "PROCESSING", "READY", "FAILED"}

\* response.text of a successful generate_content call: a str or None
ResponseTexts == { <<>>, << Lit(<<"O", "K">>) >>, << <<>> >> }

-----------------------------------------------------------------------------
VARIABLES
  args,                  \* parsed command line
  environ,               \* os.environ.get("GOOGLE_API_KEY")
  pc,                    \* position in main()
  api_key,               \* args.api_key after step 1
  agent_instructions,
  text_paths,            \* paths of step 3
  text_prompt_files,
  combined_text_prompt,
  upload_paths,          \* paths of step 4
  uploaded_file,         \* the handle of the file being uploaded (optional)
  uploaded_file_objects,
  generation_contents,
  output,                \* response.text (optional)
  dump_file,             \* content of args.dump_to, <<>> while untouched
  exit_code,             \* optional: set by sys.exit
  stderr,                \* the error written before sys.exit(1)
  stdout,                \* what --print-prompt-only printed
  upload_calls,          \* paths passed to client.files.upload, in order
  polls,                 \* client.files.get calls for the current file (saturating)
  proc_seen,             \* PROCESSING observations of the current file (saturating)
  polled,                \* some client.files.get call was made
  generate_calls         \* contents passed to client.models.generate_content

vars == <<args, environ, pc, api_key, agent_instructions, text_paths,
          text_prompt_files, combined_text_prompt, upload_paths, uploaded_file,
          uploaded_file_objects, generation_contents, output, dump_file,
          exit_code, stderr, stdout, upload_calls, polls, proc_seen, polled,
          generate_calls>>

inputs == <<args, environ>>
textVars == <<agent_instructions, text_paths, text_prompt_files, combined_text_prompt>>
uploadVars == <<upload_paths, uploaded_file, uploaded_file_objects, upload_calls,
                polls, proc_seen, polled>>
queryVars == <<generation_contents, output, generate_calls>>
outVars == <<dump_file, stdout>>

\* the state before step 1 of a run
Start(run) ==
  /\ args = run[1]
  /\ environ = run[2]
  /\ pc = "LoadApiKey"
  /\ api_key = None
  /\ agent_instructions = <<>>
  /\ text_paths = <<>>
  /\ text_prompt_files = <<>>
  /\ combined_text_prompt = <<>>
  /\ upload_paths = <<>>
  /\ uploaded_file = <<>>
  /\ uploaded_file_objects = <<>>
  /\ generation_contents = <<>>
  /\ output = <<>>
  /\ dump_file = <<>>
  /\ exit_code = <<>>
  /\ stderr = ""
  /\ stdout = [prompt |-> <<>>, files |-> <<>>]
  /\ upload_calls = <<>>
  /\ polls = 0
  /\ proc_seen = 0
  /\ polled = FALSE
  /\ generate_calls = <<>>

Init == \E run \in Runs : Start(run)

\* sys.stderr.write(msg); sys.exit(code)
SysExit(code, msg) ==
  /\ pc' = "Exit"
  /\ exit_code' = <<code>>
  /\ stderr' = msg

\* sys.exit(0)
ExitOk ==
  /\ pc' = "Exit"
  /\ exit_code' = <<0>>
  /\ UNCHANGED stderr

Goto(label) ==
  /\ pc' = label
  /\ UNCHANGED <<exit_code, stderr>>

\* `not value` for an optional str
Falsy(value) == value = None \/ value = ""

\* 1. Load API Key
LoadApiKey ==
  /\ pc = "LoadApiKey"
  /\ IF Falsy(args.api_key)
     THEN IF Falsy(environ)
          THEN /\ SysExit(1, "No API key")
               /\ UNCHANGED api_key
          ELSE /\ api_key' = environ
               /\ Goto("ReadInstructions")
     ELSE /\ api_key' = args.api_key
          /\ Goto("ReadInstructions")
  /\ UNCHANGED <<inputs, textVars, uploadVars, queryVars, outVars>>

\* step 2 with the sys.exit(1) after the error message left out
ReadInstructions_NoExit ==
  /\ pc = "ReadInstructions"
  /\ IF ~FileExists(args.agent_setup)
     THEN /\ stderr' = "instructions file not found"
          /\ agent_instructions' = <<>>
          /\ pc' = "ParseTextPaths"
          /\ UNCHANGED exit_code
     ELSE IF ~Readable(args.agent_setup)
     THEN /\ SysExit(1, "Traceback")
          /\ UNCHANGED agent_instructions
     ELSE /\ agent_instructions' = Strip(FileContent(args.agent_setup))
          /\ Goto("ParseTextPaths")
  /\ UNCHANGED <<inputs, api_key, text_paths, text_prompt_files, combined_text_prompt,
                 uploadVars, queryVars, outVars>>

\* 2. Read Agent Instructions
ReadInstructions ==
  /\ pc = "ReadInstructions"
  /\ IF ~FileExists(args.agent_setup)
     THEN /\ SysExit(1, "instructions file not found")
          /\ UNCHANGED agent_instructions
     ELSE IF ~Readable(args.agent_setup)
     THEN /\ SysExit(1, "Traceback")
          /\ UNCHANGED agent_instructions
     ELSE /\ agent_instructions' = Strip(FileContent(args.agent_setup))
          /\ Goto("ParseTextPaths")
  /\ UNCHANGED <<inputs, api_key, text_paths, text_prompt_files, combined_text_prompt,
                 uploadVars, queryVars, outVars>>

\* 3. Process --enclose-files-as-prompt: the paths
ParseTextPaths ==
  /\ pc = "ParseTextPaths"
  /\ text_paths' = IF args.enclose_files_as_prompt # <<>>
                   THEN ParsePaths(args.enclose_files_as_prompt) ELSE <<>>
  /\ Goto(IF text_paths' # <<>> THEN "ReadTextFile" ELSE "BuildPrompt")
  /\ UNCHANGED <<inputs, api_key, agent_instructions, text_prompt_files,
                 combined_text_prompt, uploadVars, queryVars, outVars>>

\* 3. one iteration of the loop over the paths
ReadTextFile ==
  /\ pc = "ReadTextFile"
  /\ LET path == text_paths[Len(text_prompt_files) + 1] IN
       IF ~FileExists(path)
       THEN /\ SysExit(1, "Text file not found")
            /\ UNCHANGED text_prompt_files
       ELSE IF ~Readable(path)
       THEN /\ SysExit(1, "Error reading")
            /\ UNCHANGED text_prompt_files
       ELSE /\ text_prompt_files' =
                 Append(text_prompt_files, [path |-> path, content |-> FileContent(path)])
            /\ Goto(IF Len(text_prompt_files') < Len(text_paths)
                    THEN "ReadTextFile" ELSE "BuildPrompt")
  /\ UNCHANGED <<inputs, api_key, agent_instructions, text_paths, combined_text_prompt,
                 uploadVars, queryVars, outVars>>

\* the block without the newline that ends it
Block_NoTrailingNewline(file) ==
  Cat(Lit(<<NL, "#", " ">>), Cat(Lit(file.path), Cat(Lit(<<NL>>), file.content)))

\* f"\n# {file['path']}\n{file['content']}\n"
Block(file) ==
  Cat(Lit(<<NL, "#", " ">>), Cat(Lit(file.path), Cat(Lit(<<NL>>), Cat(file.content, Lit(<<NL>>)))))

\* combined_text_prompt after the loop has appended the blocks of files[1..n]
RECURSIVE AppendBlocks(_, _, _)
AppendBlocks(prompt, files, n) ==
  IF n > Len(files) THEN prompt
  ELSE AppendBlocks(Cat(prompt, Block(files[n])), files, n + 1)

\* Construct the text portion of the prompt
BuildPrompt ==
  /\ pc = "BuildPrompt"
  /\ combined_text_prompt' = AppendBlocks(agent_instructions, text_prompt_files, 1)
  /\ Goto("CheckSize")
  /\ UNCHANGED <<inputs, api_key, agent_instructions, text_paths, text_prompt_files,
                 uploadVars, queryVars, outVars>>

\* the size check with >= for >
ExceedsLimit_OffByOne(prompt) == SLen(prompt) >= MAX_CHARS

\* len(combined_text_prompt) > MAX_CHARS
ExceedsLimit(prompt) == SLen(prompt) > MAX_CHARS

\* Check Text Size Limits
CheckSize ==
  /\ pc = "CheckSize"
  /\ IF ExceedsLimit(combined_text_prompt)
     THEN SysExit(1, "Text prompt size exceeds safe limit")
     ELSE Goto("ParseUploadPaths")
  /\ UNCHANGED <<inputs, api_key, textVars, uploadVars, queryVars, outVars>>

\* the count check with >= for >
TooManyFiles_OffByOne(paths) == Len(paths) >= MAX_UPLOAD_FILES

\* len(paths) > MAX_UPLOAD_FILES
TooManyFiles(paths) == Len(paths) > MAX_UPLOAD_FILES

\* 4. Process --enclose-files: the paths and the count limit
ParseUploadPaths ==
  /\ pc = "ParseUploadPaths"
  /\ IF args.enclose_files # <<>>
     THEN /\ upload_paths' = ParsePaths(args.enclose_files)
          /\ IF TooManyFiles(upload_paths')
             THEN SysExit(1, "Too many files to upload")
             ELSE Goto(IF upload_paths' # <<>> THEN "UploadFile" ELSE "Prepare")
     ELSE /\ upload_paths' = <<>>
          /\ Goto("Prepare")
  /\ UNCHANGED <<inputs, api_key, textVars, uploaded_file, uploaded_file_objects,
                 upload_calls, polls, proc_seen, polled, queryVars, outVars>>

\* the wait loop left out
StillProcessing_Never(file) == FALSE

\* the wait loop waiting for READY instead of waiting out PROCESSING
StillProcessing_UntilReady(file) == file.state # "READY"

\* uploaded_file.state == "PROCESSING"
StillProcessing(file) == file.state = "PROCESSING"

\* the FAILED check left out
ProcessingFailed_Never(file) == FALSE

\* uploaded_file.state == "FAILED"
ProcessingFailed(file) == file.state = "FAILED"

Saturate(n) == IF n < MaxPolls THEN n + 1 ELSE n

\* 4. start of one iteration of the loop over the paths: the existence check
\* and client.files.upload, which returns a handle in some state or raises
UploadFile ==
  /\ pc = "UploadFile"
  /\ LET path == upload_paths[Len(uploaded_file_objects) + 1] IN
       IF ~FileExists(path)
       THEN /\ SysExit(1, "File to upload not found")
            /\ UNCHANGED <<uploaded_file, upload_calls, polls, proc_seen>>
       ELSE /\ upload_calls' = Append(upload_calls, path)
            /\ \/ /\ SysExit(1, "Error uploading")
                  /\ UNCHANGED <<uploaded_file, polls, proc_seen>>
               \/ \E st \in FileStates :
                    /\ uploaded_file' = << [name |-> Len(upload_calls'), state |-> st] >>
                    /\ polls' = 0
                    /\ proc_seen' = IF st = "PROCESSING" THEN 1 ELSE 0
                    /\ Goto("Poll")
  /\ UNCHANGED <<inputs, api_key, textVars, upload_paths, uploaded_file_objects,
                 polled, queryVars, outVars>>

\* one iteration of the wait loop: sleep, then client.files.get, which returns
\* the handle in some state or raises
PollFile ==
  /\ pc = "Poll"
  /\ StillProcessing(uploaded_file[1])
  /\ polls' = Saturate(polls)
  /\ polled' = TRUE
  /\ \/ /\ SysExit(1, "Error uploading")
        /\ UNCHANGED <<uploaded_file, proc_seen>>
     \/ \E st \in FileStates :
          /\ uploaded_file' = << [name |-> uploaded_file[1].name, state |-> st] >>
          /\ proc_seen' = IF st = "PROCESSING" THEN Saturate(proc_seen) ELSE proc_seen
          /\ Goto("Poll")
  /\ UNCHANGED <<inputs, api_key, textVars, upload_paths, uploaded_file_objects,
                 upload_calls, queryVars, outVars>>

\* after the wait loop: the FAILED check and the append
CollectFile ==
  /\ pc = "Poll"
  /\ ~StillProcessing(uploaded_file[1])
  /\ IF ProcessingFailed(uploaded_file[1])
     THEN /\ SysExit(1, "Error uploading")
          /\ UNCHANGED uploaded_file_objects
     ELSE /\ uploaded_file_objects' = Append(uploaded_file_objects, uploaded_file[1])
          /\ Goto(IF Len(uploaded_file_objects') < Len(upload_paths)
                  THEN "UploadFile" ELSE "Prepare")
  /\ UNCHANGED <<inputs, api_key, textVars, upload_paths, uploaded_file, upload_calls,
                 polls, proc_seen, polled, queryVars, outVars>>

\* [combined_text_prompt] extended by uploaded_file_objects
GenerationContents(prompt, objects) == <<prompt>> \o objects

\* the flag ignored
PrintPromptOnly_Ignored(namespace) == FALSE

\* if args.print_prompt_only
PrintPromptOnly(namespace) == namespace.print_prompt_only

\* 5. Prepare Content for Generation, and the --print-prompt-only exit
Prepare ==
  /\ pc = "Prepare"
  /\ generation_contents' = GenerationContents(combined_text_prompt, uploaded_file_objects)
  /\ IF PrintPromptOnly(args)
     THEN /\ stdout' = [prompt |-> <<combined_text_prompt>>, files |-> uploaded_file_objects]
          /\ ExitOk
     ELSE /\ Goto("Query")
          /\ UNCHANGED stdout
  /\ UNCHANGED <<inputs, api_key, textVars, uploadVars, output, generate_calls, dump_file>>

\* step 6 with the sys.exit(1) of the except branch left out
Query_NoExit ==
  /\ pc = "Query"
  /\ generate_calls' = Append(generate_calls, generation_contents)
  /\ \/ /\ stderr' = "Error while querying Gemini"
        /\ output' = << <<>> >>
        /\ pc' = "Write"
        /\ UNCHANGED exit_code
     \/ \E text \in ResponseTexts :
          /\ output' = text
          /\ Goto("Write")
  /\ UNCHANGED <<inputs, api_key, textVars, uploadVars, generation_contents, outVars>>

\* 6. Send to Model: generate_content returns a response or raises
Query ==
  /\ pc = "Query"
  /\ generate_calls' = Append(generate_calls, generation_contents)
  /\ \/ /\ SysExit(1, "Error while querying Gemini")
        /\ UNCHANGED output
     \/ \E text \in ResponseTexts :
          /\ output' = text
          /\ Goto("Write")
  /\ UNCHANGED <<inputs, api_key, textVars, uploadVars, generation_contents, outVars>>

\* 7. Write Output: open(args.dump_to, "w") truncates the file, f.write(output)
\* raises on None
WriteOutput ==
  /\ pc = "Write"
  /\ \/ /\ SysExit(1, "Error writing output")
        /\ UNCHANGED dump_file
     \/ /\ dump_file' = << <<>> >>
        /\ SysExit(1, "Error writing output")
     \/ /\ output # <<>>
        /\ dump_file' = output
        /\ ExitOk
  /\ UNCHANGED <<inputs, api_key, textVars, uploadVars, queryVars, stdout>>

Next ==
  \/ LoadApiKey
  \/ ReadInstructions
  \/ ParseTextPaths
  \/ ReadTextFile
  \/ BuildPrompt
  \/ CheckSize
  \/ ParseUploadPaths
  \/ UploadFile
  \/ PollFile
  \/ CollectFile
  \/ Prepare
  \/ Query
  \/ WriteOutput

Spec == Init /\ [][Next]_vars

\* the interpreter runs main() to its end: no step is postponed forever
FairSpec == Spec /\ WF_vars(Next)

-----------------------------------------------------------------------------
\* Vocabulary of the properties

Exited == pc = "Exit"
NoRemoteCall == upload_calls = <<>> /\ ~polled /\ generate_calls = <<>>
LocalErrors == {"No API key", "instructions file not found", "Traceback",
                "Text file not found", "Error reading",
                "Text prompt size exceeds safe limit", "Too many files to upload"}
UploadErrors == {"File to upload not found", "Error uploading"}
\* the run got past the local checks of steps 1 to 4
PassedLocalChecks ==
  \/ pc \in {"UploadFile", "Poll", "Prepare", "Query", "Write"}
  \/ Exited /\ stderr \notin LocalErrors
\* combined_text_prompt has been constructed
PromptBuilt ==
  \/ pc \in {"CheckSize", "ParseUploadPaths", "UploadFile", "Poll", "Prepare", "Query", "Write"}
  \/ Exited /\ stderr \notin {"No API key", "instructions file not found", "Traceback",
                              "Text file not found", "Error reading"}

\* C1 as stated: a run with --print-prompt-only that passes the credential,
\* instructions, size and count checks makes no upload call, no status poll and
\* no generation call, and exits 0 with the prompt printed.
C1_NoUploadWhenPrintOnly ==
  (args.print_prompt_only /\ PassedLocalChecks) =>
     /\ upload_calls = <<>>
     /\ ~polled
     /\ generate_calls = <<>>
     /\ Exited => exit_code = <<0>> /\ stdout.prompt = <<combined_text_prompt>>

\* C1 amended: a run with --print-prompt-only never makes a generation call and
\* never touches the output file; the files of --enclose-files are uploaded
\* before the flag is looked at, and once the upload step is through the run
\* prints the assembled prompt and the collected handles and exits 0, every
\* listed path having been uploaded once, in order.
C1_PrintPromptOnly ==
  args.print_prompt_only =>
     /\ generate_calls = <<>>
     /\ dump_file = <<>>
     /\ pc \notin {"Query", "Write"}
     /\ (Exited /\ stderr \notin LocalErrors \cup UploadErrors) =>
          /\ exit_code = <<0>>
          /\ stdout.prompt = <<combined_text_prompt>>
          /\ stdout.files = uploaded_file_objects
          /\ upload_calls = upload_paths
     /\ (Exited /\ exit_code = <<0>>) => stdout.prompt = <<combined_text_prompt>>

C1_Witness ==
  /\ args.print_prompt_only
  /\ Exited
  /\ exit_code = <<0>>
  /\ Len(upload_calls) = 2
  /\ polled
  /\ stdout.prompt = <<combined_text_prompt>>

\* C2: a prompt longer than MAX_CHARS ends the run with exit code 1 at the size
\* check, before any remote call; the check rejects nothing else, so a prompt
\* of exactly MAX_CHARS characters passes.
C2_CharCountGuard ==
  /\ SLen(combined_text_prompt) > MAX_CHARS =>
       /\ pc \in {"CheckSize", "Exit"}
       /\ NoRemoteCall
       /\ Exited => exit_code = <<1>> /\ stderr = "Text prompt size exceeds safe limit"
  /\ stderr = "Text prompt size exceeds safe limit" =>
       SLen(combined_text_prompt) > MAX_CHARS
  /\ (PromptBuilt /\ SLen(combined_text_prompt) = MAX_CHARS /\ Exited) =>
       stderr # "Text prompt size exceeds safe limit"

C2_Witness ==
  /\ Exited
  /\ stderr = "Text prompt size exceeds safe limit"
  /\ SLen(combined_text_prompt) = MAX_CHARS + 1
  /\ text_prompt_files # <<>>

\* the boundary case of C2 is explored: a prompt of exactly MAX_CHARS
\* characters goes on to the upload
C2_BoundaryReached ==
  /\ SLen(combined_text_prompt) = MAX_CHARS
  /\ upload_calls # <<>>

\* C3: more than MAX_UPLOAD_FILES paths end the run with exit code 1 before any
\* upload, poll or generation call, whether or not the files exist; exactly
\* MAX_UPLOAD_FILES paths pass; no run makes more than MAX_UPLOAD_FILES uploads.
C3_UploadCountLimit ==
  /\ Len(upload_calls) <= MAX_UPLOAD_FILES
  /\ Len(upload_paths) > MAX_UPLOAD_FILES =>
       /\ Exited
       /\ exit_code = <<1>>
       /\ stderr = "Too many files to upload"
       /\ NoRemoteCall
  /\ stderr = "Too many files to upload" => Len(upload_paths) > MAX_UPLOAD_FILES

C3_Witness ==
  /\ Exited
  /\ stderr = "Too many files to upload"
  /\ Len(upload_paths) = MAX_UPLOAD_FILES + 1
  /\ FileExists(upload_paths[1])

\* the boundary case of C3 is explored: MAX_UPLOAD_FILES paths are all uploaded
C3_BoundaryReached ==
  /\ Len(upload_paths) = MAX_UPLOAD_FILES
  /\ Len(upload_calls) = MAX_UPLOAD_FILES

\* C4: with no credential on the command line and none in the environment, and
\* likewise with a missing --agent-setup file, the run ends with exit code 1,
\* no remote call made and the output file untouched.
C4_EarlyConfigFailures ==
  /\ (Falsy(args.api_key) /\ Falsy(environ) /\ pc # "LoadApiKey") =>
       /\ Exited
       /\ exit_code = <<1>>
       /\ NoRemoteCall
       /\ dump_file = <<>>
  /\ (~FileExists(args.agent_setup) /\ pc \notin {"LoadApiKey", "ReadInstructions"}) =>
       /\ Exited
       /\ exit_code = <<1>>
       /\ NoRemoteCall
       /\ dump_file = <<>>

C4_Witness ==
  /\ Exited
  /\ stderr = "instructions file not found"
  /\ args.enclose_files # <<>>
  /\ args.enclose_files_as_prompt # <<>>
  /\ ~args.print_prompt_only

\* the entries a reader takes from each --enclose-files-as-prompt value explored
ListedPaths(arg) ==
  CASE arg = <<"a">> -> << <<"a">> >>
    [] arg = <<" ", "a", " ", ",", ",", "b">> -> << <<"a">>, <<"b">> >>
    [] arg = <<"b", ",", "a">> -> << <<"b">>, <<"a">> >>
    [] arg = <<"a", " ", "b">> -> << <<"a", " ", "b">> >>
    [] arg = <<"m">> -> << <<"m">> >>
    [] arg = <<"a", ",", "d">> -> << <<"a">>, <<"d">> >>
    [] OTHER -> <<>>

\* the characters of the instructions files explored, leading and trailing
\* whitespace left out
TrimmedChars(path) ==
  CASE path = <<"i">> -> <<"S", " ", "t", ".">>
    [] path = <<"e">> -> <<>>
    [] OTHER -> Expand(FileContent(path))

\* the characters after I: per path a line "# path", the content, a newline
RECURSIVE BlocksChars(_)
BlocksChars(paths) ==
  IF paths = <<>> THEN <<>>
  ELSE <<NL, "#", " ">> \o Head(paths) \o <<NL>> \o Expand(FileContent(Head(paths)))
       \o <<NL>> \o BlocksChars(Tail(paths))

RECURSIVE BlocksLen(_)
BlocksLen(paths) ==
  IF paths = <<>> THEN 0
  ELSE 3 + Len(Head(paths)) + 1 + SLen(FileContent(Head(paths))) + 1 + BlocksLen(Tail(paths))

\* prompts short enough to be compared character by character
SmallLen == 40

\* C5: the assembled prompt is the trimmed instructions I followed, for each
\* listed text file in order, by a newline, the line "# <path>", the content
\* verbatim and a newline; with no text file it is I.
C5_PromptAssembly ==
  PromptBuilt =>
    LET paths == ListedPaths(args.enclose_files_as_prompt)
        instr == Strip(FileContent(args.agent_setup))
    IN /\ text_paths = paths
       /\ SLen(combined_text_prompt) = SLen(instr) + BlocksLen(paths)
       /\ paths = <<>> => combined_text_prompt = instr
       /\ SLen(combined_text_prompt) <= SmallLen =>
            Expand(combined_text_prompt) = TrimmedChars(args.agent_setup) \o BlocksChars(paths)
       /\ SLen(combined_text_prompt) > SmallLen =>
            /\ combined_text_prompt[1] = instr[1]
            /\ Expand(Tail(combined_text_prompt)) = BlocksChars(paths)

C5_Witness ==
  /\ PromptBuilt
  /\ args.enclose_files_as_prompt = <<" ", "a", " ", ",", ",", "b">>
  /\ args.agent_setup = <<"i">>
  /\ Len(text_prompt_files) = 2
  /\ Expand(combined_text_prompt) =
       <<"S", " ", "t", ".", NL, "#", " ", "a", NL, " ", "H", NL, NL,
         NL, "#", " ", "b", NL, "#", "b", "b", NL>>

\* the handle in uploaded_file has been appended to uploaded_file_objects
Collected ==
  /\ uploaded_file # <<>>
  /\ Len(uploaded_file_objects) = uploaded_file[1].name

Waiting(state) == pc = "Poll" /\ uploaded_file[1].state = state

\* C6: a file reported PROCESSING k times and then READY is polled again after
\* each PROCESSING report (k status polls, k + 1 status reports counting the
\* upload's own), the handle collected is the READY one, and the upload step
\* does not fail; with k = 1 that is two status reports.
C6_UploadPolling ==
  /\ [](pc = "Poll" \/ Collected =>
          proc_seen = (IF uploaded_file[1].state = "PROCESSING"
                       THEN Saturate(polls) ELSE polls))
  /\ [](Collected =>
          /\ uploaded_file_objects[Len(uploaded_file_objects)] = uploaded_file[1]
          /\ uploaded_file[1].state # "PROCESSING"
          /\ proc_seen >= 1 => polled /\ polls >= 1)
  /\ [][Waiting("PROCESSING") =>
          /\ polls' = Saturate(polls)
          /\ polled'
          /\ uploaded_file_objects' = uploaded_file_objects]_vars
  /\ [][Waiting("READY") =>
          /\ uploaded_file_objects' = Append(uploaded_file_objects, uploaded_file[1])
          /\ UNCHANGED <<exit_code, stderr, polls, polled, uploaded_file>>]_vars

C6_Witness ==
  /\ Collected
  /\ uploaded_file[1].state = "READY"
  /\ proc_seen = 1
  /\ polls = 1
  /\ Len(upload_calls) = 1

\* C7: the output file is touched only after a generation call has returned a
\* response, and a successful write leaves exactly the response text in it;
\* every failure up to and including the generation call leaves the file
\* untouched and exits 1; exit code 0 comes only from a successful write or
\* from --print-prompt-only.
C7_OutputAndExitCodes ==
  /\ dump_file # <<>> =>
       /\ Exited
       /\ Len(generate_calls) = 1
       /\ output # <<>> \/ stderr = "Error writing output"
       /\ exit_code = <<0>> => dump_file = output
  /\ (Exited /\ exit_code = <<0>>) =>
       \/ args.print_prompt_only /\ dump_file = <<>> /\ generate_calls = <<>>
       \/ ~args.print_prompt_only /\ output # <<>> /\ dump_file = output
  /\ (Exited /\ stderr \in LocalErrors \cup UploadErrors \cup {"Error while querying Gemini"}) =>
       /\ dump_file = <<>>
       /\ exit_code = <<1>>
  /\ Exited => exit_code \in {<<0>>, <<1>>}
  /\ (Exited /\ stderr # "") => exit_code = <<1>>

C7_Witness ==
  /\ Exited
  /\ exit_code = <<0>>
  /\ ~args.print_prompt_only
  /\ dump_file = << Lit(<<"O", "K">>) >>
  /\ Len(text_prompt_files) = 1

\* C8: when the i-th upload path is missing, or its upload or a status poll
\* raises, or its handle ends FAILED, the run exits 1 with no upload for a
\* later path, no generation call and nothing retried; the paths before it
\* have been uploaded once each, in order.
C8_UploadFailureIsFatal ==
  /\ []((Exited /\ stderr \in UploadErrors) =>
          LET i == Len(uploaded_file_objects) + 1 IN
            /\ exit_code = <<1>>
            /\ generate_calls = <<>>
            /\ dump_file = <<>>
            /\ i <= Len(upload_paths)
            /\ stderr = "File to upload not found" =>
                 /\ ~FileExists(upload_paths[i])
                 /\ upload_calls = SubSeq(upload_paths, 1, i - 1)
            /\ stderr = "Error uploading" => upload_calls = SubSeq(upload_paths, 1, i))
  /\ [](upload_calls = SubSeq(upload_paths, 1, Len(upload_calls)))
  /\ [][Waiting("FAILED") => pc' = "Exit" /\ exit_code' = <<1>>]_vars
  /\ [][(pc = "UploadFile" /\ ~FileExists(upload_paths[Len(uploaded_file_objects) + 1])) =>
          pc' = "Exit" /\ exit_code' = <<1>>]_vars
  /\ [][~Exited]_vars

C8_Witness ==
  /\ Exited
  /\ stderr = "Error uploading"
  /\ uploaded_file # <<>>
  /\ uploaded_file[1].state = "FAILED"
  /\ Len(uploaded_file_objects) = 1
  /\ Len(upload_calls) = 2
  /\ Len(upload_paths) = MAX_UPLOAD_FILES

\* C9 as stated: every handle collected, and so every handle passed to the
\* generation call, is in state READY, and the generation contents are the
\* text prompt followed by the handles in the order of the upload paths.
C9_CollectedHandlesReady ==
  /\ \A i \in 1..Len(uploaded_file_objects) :
       /\ uploaded_file_objects[i].state = "READY"
       /\ uploaded_file_objects[i].name = i
  /\ \A c \in 1..Len(generate_calls) :
       generate_calls[c] = <<combined_text_prompt>> \o uploaded_file_objects

====
